---- MODULE Spec2Model ----
(***************************************************************************)
(* Model of the scheduler engine: SchedulerEngine (engine.py), JobRunner   *)
(* (runner.py) and next_run_time (recurrence.py).                          *)
(*                                                                         *)
(* Timestamps are whole seconds.  A string holding a time is a record      *)
(* [form, at]: form "iso" is a full date-time string, form "hhmm" a bare   *)
(* HH:MM string (at = minutes after midnight), form "int" an integer.      *)
(* PyNone is Python's None, Absent a dictionary key that is not there.     *)
(***************************************************************************)
EXTENDS Integers, Sequences, FiniteSets, TLC

\* ---------------------------------------------------------------- bounds
MaxTime == 4
MaxJobs == 2
MaxDispatch == 2
MaxStarts == 1
MaxRestarts == 2
MaxCalcTime == 5
MaxCalcSeconds == 3

\* ------------------------------------------------------ program constants
SecondsPerDay == 86400
SecondsPerHour == 3600
SecondsPerWeek == 604800
WorkSeconds == 2
PollSeconds == 1

\* ------------------------------------------------------------ data model
\* Every Python value a rule can hold is a record [form, at].
PyNone == [form |-> "none", at |-> 0]
Absent == [form |-> "absent", at |-> 0]

Iso(n) == [form |-> "iso", at |-> n]
HHMM(m) == [form |-> "hhmm", at |-> m]
Num(n) == [form |-> "int", at |-> n]

\* Outcome of a call: a returned value or the exception it raised.
Ok(v) == [err |-> "none", val |-> v]
Raise(e) == [err |-> e, val |-> 0]

TimeFrequencies == {"once", "daily", "hourly", "weekly"}
UnknownFrequency == "yearly"

Rule(f, t, s) == [frequency |-> f, time |-> t, seconds |-> s]

OnceTimeInputs == {Iso(0), HHMM(0), PyNone}
SecondsInputs == {Num(0), Num(1)}

\* The rules add_job is called with: the CLI builds {frequency, time} for a
\* time-of-day rule and {frequency, seconds} for an interval rule.
RuleInputs ==
    {Rule("once", t, Absent) : t \in OnceTimeInputs}
        \cup {Rule("daily", HHMM(0), Absent), Rule("hourly", Iso(0), Absent),
              Rule("weekly", Iso(0), Absent), Rule(UnknownFrequency, Iso(0), Absent)}
        \cup {Rule("interval", Absent, s) : s \in SecondsInputs}

\* The rules and trigger times next_run_time is called with on its own.
CalcRules ==
    {Rule("once", t, Absent) : t \in {Iso(n) : n \in 0..MaxCalcTime} \cup {HHMM(0), PyNone}}
        \cup {Rule(f, Iso(0), Absent) : f \in {"daily", "hourly", "weekly", UnknownFrequency}}
        \cup {Rule("interval", Absent, s) :
                  s \in {Num(n) : n \in -1..MaxCalcSeconds} \cup {PyNone}}

CalcTimes == 0..MaxCalcTime

\* Restarting the poll loop is explored with these rules.
RestartRuleInputs == {Rule("once", Iso(0), Absent), Rule("interval", Absent, Num(1))}

\* ---------------------------------------------------- conversions (utils)
\* datetime.isoformat(): a timestamp to its full date-time string.
isoformat(n) == Iso(n)

\* datetime.datetime.fromisoformat(s): only a full date-time string parses.
fromisoformat(s) ==
    IF s.form = "none" THEN Raise("TypeError")
    ELSE IF s.form = "absent" THEN Raise("KeyError")
    ELSE IF s.form = "iso" THEN Ok(s.at)
    ELSE Raise("ValueError")

\* scheduler.utils.parse_time: an ISO string to a timestamp.
parse_time(s) == fromisoformat(s)

\* now().date(): midnight of the current day.
today(t) == t - (t % SecondsPerDay)

\* ------------------------------------------------------------ recurrence
\* datetime.timedelta(seconds=s)
timedelta_seconds(s) == IF s.form = "int" THEN Ok(s.at) ELSE Raise("TypeError")

next_run_time_once_drift(rule, last_run) ==
    LET freq == rule.frequency IN
    IF freq = "once" THEN Ok(last_run)
    ELSE IF freq = "daily" THEN Ok(last_run + SecondsPerDay)
    ELSE IF freq = "hourly" THEN Ok(last_run + SecondsPerHour)
    ELSE IF freq = "weekly" THEN Ok(last_run + SecondsPerWeek)
    ELSE IF freq = "interval" THEN
        LET d == timedelta_seconds(rule.seconds) IN
        IF d.err = "none" THEN Ok(last_run + d.val) ELSE d
    ELSE Raise("ValueError")

next_run_time_weekly_as_daily(rule, last_run) ==
    LET freq == rule.frequency IN
    IF freq = "once" THEN fromisoformat(rule.time)
    ELSE IF freq = "daily" THEN Ok(last_run + SecondsPerDay)
    ELSE IF freq = "hourly" THEN Ok(last_run + SecondsPerHour)
    ELSE IF freq = "weekly" THEN Ok(last_run + SecondsPerDay)
    ELSE IF freq = "interval" THEN
        LET d == timedelta_seconds(rule.seconds) IN
        IF d.err = "none" THEN Ok(last_run + d.val) ELSE d
    ELSE Raise("ValueError")

next_run_time(rule, last_run) ==
    LET freq == rule.frequency IN
    IF freq = "once" THEN fromisoformat(rule.time)
    ELSE IF freq = "daily" THEN Ok(last_run + SecondsPerDay)
    ELSE IF freq = "hourly" THEN Ok(last_run + SecondsPerHour)
    ELSE IF freq = "weekly" THEN Ok(last_run + SecondsPerWeek)
    ELSE IF freq = "interval" THEN
        LET d == timedelta_seconds(rule.seconds) IN
        IF d.err = "none" THEN Ok(last_run + d.val) ELSE d
    ELSE Raise("ValueError")

\* ----------------------------------------------------------------- state
VARIABLES
    jobs,            \* SchedulerEngine.jobs / JobRunner.jobs: the shared list of job dicts
    store,           \* what save_jobs last wrote
    runner_running,  \* JobRunner.running
    lock,            \* JobRunner.lock: 0 when free, else the poll-loop thread holding it
    thread,          \* SchedulerEngine.thread: 0 for None, else the latest poll-loop thread
    pollers,         \* the threads running JobRunner.start
    units,           \* the threads running JobRunner.execute_and_reschedule
    n_units,         \* how many execution threads were started so far
    clock,           \* now()
    caller_pc,       \* where the thread calling the engine is
    stop_returned,   \* whether a call of SchedulerEngine.stop has returned
    add_result,      \* how the last add_job ended
    calc_rule, calc_t, calc_out   \* one call of next_run_time: arguments and outcome

vars == <<jobs, store, runner_running, lock, thread, pollers, units, n_units, clock,
          caller_pc, stop_returned, add_result, calc_rule, calc_t, calc_out>>

sched_vars == <<jobs, store, runner_running, lock, thread, pollers, units, n_units, clock,
                caller_pc, stop_returned, add_result>>

calc_vars == <<calc_rule, calc_t, calc_out>>

Pollers == 1..MaxRestarts
Units == 1..MaxDispatch

\* A job dict.  add_job writes no "running" key; job.get("running", False)
\* reads a missing key as False, which is what running = FALSE stands for.
Job(rule, next_run) == [rule |-> rule, next_run |-> next_run, running |-> FALSE]

NoPoller == [pc |-> "unborn", i |-> 0, t |-> 0, next_time |-> 0, wake |-> 0,
             due |-> {}, dispatched |-> {}]

\* exc names the call whose exception ended the thread ("none": no exception).
NoUnit == [pc |-> "unborn", job |-> 0, last_run |-> 0, dispatch_next_run |-> 0, wake |-> 0,
           exc |-> "none"]

InFlightPcs == {"run_job", "clear", "parse", "reschedule", "save"}

InFlight(j) == {u \in Units : units[u].pc \in InFlightPcs /\ units[u].job = j}

\* The glossary's due job, by the fields the scan consults.
IsDue(job, t) == parse_time(job.next_run).val <= t /\ ~job.running

\* job_store.save_jobs(jobs)
save_jobs(js) == js

\* job_store.load_jobs() at construction: nothing was saved yet.
load_jobs == << >>

\* job_store.load_jobs() of a newly constructed engine, after js was saved.
load_saved(js) == js

Init ==
    /\ jobs = load_jobs
    /\ store = << >>
    /\ runner_running = TRUE
    /\ lock = 0
    /\ thread = 0
    /\ pollers = [w \in Pollers |-> NoPoller]
    /\ units = [u \in Units |-> NoUnit]
    /\ n_units = 0
    /\ clock = 0
    /\ caller_pc = "ready"
    /\ stop_returned = FALSE
    /\ add_result = "none"
    /\ calc_rule = Rule("once", Iso(0), Absent)
    /\ calc_t = 0
    /\ calc_out = Raise("unset")

\* ---------------------------------------------------------------- engine
first_run_skips_past_time(rule, t) ==
    IF rule.frequency = "interval" THEN Ok(t)
    ELSE
        LET time_str == IF rule.time.form = "absent" THEN HHMM(0) ELSE rule.time
            parsed == IF time_str.form = "none" THEN Raise("TypeError")
                      ELSE IF time_str.form = "hhmm"
                          THEN parse_time(Iso(today(t) + time_str.at * 60))
                          ELSE parse_time(time_str)
        IN IF parsed.err = "none" /\ parsed.val < t
              THEN Ok(parsed.val + SecondsPerDay)
              ELSE parsed

\* The first next_run add_job computes (engine.py lines 16-24).
first_run(rule, t) ==
    IF rule.frequency = "interval" THEN Ok(t)
    ELSE
        LET time_str == IF rule.time.form = "absent" THEN HHMM(0) ELSE rule.time IN
        IF time_str.form = "none" THEN Raise("TypeError")
        ELSE IF time_str.form = "hhmm"
            THEN parse_time(Iso(today(t) + time_str.at * 60))
            ELSE parse_time(time_str)

add_job(rule) ==
    /\ caller_pc = "ready"
    /\ Len(jobs) < MaxJobs
    /\ LET fr == first_run(rule, clock) IN
        IF fr.err = "none"
        THEN /\ jobs' = Append(jobs, Job(rule, isoformat(fr.val)))
             /\ store' = save_jobs(jobs')
             /\ add_result' = "ok"
        ELSE /\ add_result' = fr.err
             /\ UNCHANGED <<jobs, store>>
    /\ UNCHANGED <<runner_running, lock, thread, pollers, units, n_units, clock,
                   caller_pc, stop_returned, calc_vars>>

\* start(), called at most max times.
engine_start(max) ==
    /\ caller_pc = "ready"
    /\ thread < max
    /\ thread' = thread + 1
    /\ pollers' = [pollers EXCEPT ![thread + 1].pc = "while"]
    /\ UNCHANGED <<jobs, store, runner_running, lock, units, n_units, clock,
                   caller_pc, stop_returned, add_result, calc_vars>>

\* stop(): self.runner.stop(), then the join of self.thread begins.
engine_stop ==
    /\ caller_pc = "ready"
    /\ runner_running' = FALSE
    /\ caller_pc' = "joining"
    /\ UNCHANGED <<jobs, store, lock, thread, pollers, units, n_units, clock,
                   stop_returned, add_result, calc_vars>>

\* stop() returns: there is no thread, or the joined thread has ended.
engine_stop_return ==
    /\ caller_pc = "joining"
    /\ IF thread = 0 THEN TRUE ELSE pollers[thread].pc = "done"
    /\ caller_pc' = "ready"
    /\ stop_returned' = TRUE
    /\ UNCHANGED <<jobs, store, runner_running, lock, thread, pollers, units, n_units,
                   clock, add_result, calc_vars>>

\* ------------------------------------------------- runner: the poll loop
\* while self.running: tested when the thread starts and each time
\* time.sleep(1) is over.
start_while(w) ==
    /\ pollers[w].pc = "while"
    /\ clock >= pollers[w].wake
    /\ pollers' = [pollers EXCEPT ![w].pc = IF runner_running THEN "acquire" ELSE "done",
                       ![w].wake = 0]
    /\ UNCHANGED <<jobs, store, runner_running, lock, thread, units, n_units, clock,
                   caller_pc, stop_returned, add_result, calc_vars>>

\* with self.lock: the scan starts.  due and dispatched are history: the
\* jobs due at this moment, and the jobs this scan has dispatched.
start_acquire(w) ==
    /\ pollers[w].pc = "acquire"
    /\ lock = 0
    /\ lock' = w
    /\ pollers' = [pollers EXCEPT ![w].pc = "for", ![w].i = 1,
                       ![w].due = {j \in DOMAIN jobs : IsDue(jobs[j], clock)},
                       ![w].dispatched = {}]
    /\ UNCHANGED <<jobs, store, runner_running, thread, units, n_units, clock,
                   caller_pc, stop_returned, add_result, calc_vars>>

\* for job in self.jobs: the next job is read (t, next_time), or the loop
\* ends, the lock is released and time.sleep(1) begins.
start_for(w) ==
    /\ pollers[w].pc = "for"
    /\ IF pollers[w].i <= Len(jobs)
       THEN /\ pollers' = [pollers EXCEPT ![w].pc = "if", ![w].t = clock,
                   ![w].next_time = parse_time(jobs[pollers[w].i].next_run).val]
            /\ lock' = lock
       ELSE /\ pollers' = [pollers EXCEPT ![w].pc = "while", ![w].i = 0,
                   ![w].wake = clock + PollSeconds, ![w].due = {},
                   ![w].dispatched = {}]
            /\ lock' = 0
    /\ UNCHANGED <<jobs, store, runner_running, thread, units, n_units, clock,
                   caller_pc, stop_returned, add_result, calc_vars>>

\* if t >= next_time and not job.get("running", False): set running and
\* start the thread of execute_and_reschedule.
start_if(w) ==
    /\ pollers[w].pc = "if"
    /\ LET i == pollers[w].i
           fire == pollers[w].t >= pollers[w].next_time /\ ~jobs[i].running
       IN
        IF fire
        THEN /\ n_units < MaxDispatch
             /\ jobs' = [jobs EXCEPT ![i].running = TRUE]
             /\ n_units' = n_units + 1
             /\ units' = [units EXCEPT ![n_units + 1] =
                    [pc |-> "run_job", job |-> i, last_run |-> 0,
                     dispatch_next_run |-> parse_time(jobs[i].next_run).val,
                     wake |-> clock + WorkSeconds, exc |-> "none"]]
             /\ pollers' = [pollers EXCEPT ![w].pc = "for", ![w].i = i + 1,
                    ![w].t = 0, ![w].next_time = 0, ![w].dispatched = @ \cup {i}]
        ELSE /\ pollers' = [pollers EXCEPT ![w].pc = "for", ![w].i = i + 1,
                    ![w].t = 0, ![w].next_time = 0]
             /\ UNCHANGED <<jobs, n_units, units>>
    /\ UNCHANGED <<store, runner_running, lock, thread, clock,
                   caller_pc, stop_returned, add_result, calc_vars>>

\* ------------------------------------------- runner: one execution thread
\* run_job returns: the notification was started and time.sleep(2) is over.
run_job_return(u) ==
    /\ units[u].pc = "run_job"
    /\ clock >= units[u].wake
    /\ units' = [units EXCEPT ![u].pc = "clear", ![u].wake = 0]
    /\ UNCHANGED <<jobs, store, runner_running, lock, thread, pollers, n_units, clock,
                   caller_pc, stop_returned, add_result, calc_vars>>

\* run_job raises (print or Thread.start fails): nothing catches it, the
\* thread ends.
run_job_raise(u) ==
    /\ units[u].pc = "run_job"
    /\ units' = [units EXCEPT ![u].pc = "raised", ![u].wake = 0, ![u].exc = "run_job"]
    /\ UNCHANGED <<jobs, store, runner_running, lock, thread, pollers, n_units, clock,
                   caller_pc, stop_returned, add_result, calc_vars>>

\* job["running"] = False
execute_clear_running(u) ==
    /\ units[u].pc = "clear"
    /\ jobs' = [jobs EXCEPT ![units[u].job].running = FALSE]
    /\ units' = [units EXCEPT ![u].pc = "parse"]
    /\ UNCHANGED <<store, runner_running, lock, thread, pollers, n_units, clock,
                   caller_pc, stop_returned, add_result, calc_vars>>

\* last_run = parse_time(job["next_run"])
execute_parse(u) ==
    /\ units[u].pc = "parse"
    /\ units' = [units EXCEPT ![u].pc = "reschedule",
                     ![u].last_run = parse_time(jobs[units[u].job].next_run).val]
    /\ UNCHANGED <<jobs, store, runner_running, lock, thread, pollers, n_units, clock,
                   caller_pc, stop_returned, add_result, calc_vars>>

\* job["next_run"] = next_run_time(job["rule"], last_run).isoformat()
execute_reschedule(u) ==
    /\ units[u].pc = "reschedule"
    /\ LET j == units[u].job
           r == next_run_time(jobs[j].rule, units[u].last_run)
       IN
        IF r.err = "none"
        THEN /\ jobs' = [jobs EXCEPT ![j].next_run = isoformat(r.val)]
             /\ units' = [units EXCEPT ![u].pc = "save", ![u].last_run = 0]
        ELSE /\ units' = [units EXCEPT ![u].pc = "raised", ![u].last_run = 0,
                        ![u].exc = "next_run_time"]
             /\ jobs' = jobs
    /\ UNCHANGED <<store, runner_running, lock, thread, pollers, n_units, clock,
                   caller_pc, stop_returned, add_result, calc_vars>>

\* notify_job_completed(job['name'], job["next_run"]), then
\* save_jobs(self.jobs), and the thread ends.
execute_save(u) ==
    /\ units[u].pc = "save"
    /\ store' = save_jobs(jobs)
    /\ units' = [units EXCEPT ![u].pc = "done"]
    /\ UNCHANGED <<jobs, runner_running, lock, thread, pollers, n_units, clock,
                   caller_pc, stop_returned, add_result, calc_vars>>

\* notify_job_completed raises (its Thread.start fails): nothing catches
\* it, the thread ends before save_jobs.
execute_notify_raise(u) ==
    /\ units[u].pc = "save"
    /\ units' = [units EXCEPT ![u].pc = "raised", ![u].exc = "notify_job_completed"]
    /\ UNCHANGED <<jobs, store, runner_running, lock, thread, pollers, n_units, clock,
                   caller_pc, stop_returned, add_result, calc_vars>>

execute_save_raise_rolls_back(u) ==
    /\ units[u].pc = "save"
    /\ units' = [units EXCEPT ![u].pc = "raised", ![u].exc = "save_jobs"]
    /\ jobs' = [jobs EXCEPT ![units[u].job].next_run = isoformat(units[u].dispatch_next_run)]
    /\ UNCHANGED <<store, runner_running, lock, thread, pollers, n_units, clock,
                   caller_pc, stop_returned, add_result, calc_vars>>

\* save_jobs raises (the store cannot be written): nothing catches it, the
\* thread ends.
execute_save_raise(u) ==
    /\ units[u].pc = "save"
    /\ units' = [units EXCEPT ![u].pc = "raised", ![u].exc = "save_jobs"]
    /\ UNCHANGED <<jobs, store, runner_running, lock, thread, pollers, n_units, clock,
                   caller_pc, stop_returned, add_result, calc_vars>>

\* Time passes.
tick ==
    /\ clock < MaxTime
    /\ clock' = clock + 1
    /\ UNCHANGED <<jobs, store, runner_running, lock, thread, pollers, units, n_units,
                   caller_pc, stop_returned, add_result, calc_vars>>

Next ==
    \/ \E rule \in RuleInputs : add_job(rule)
    \/ engine_start(MaxStarts)
    \/ engine_stop
    \/ engine_stop_return
    \/ \E w \in Pollers : start_while(w)
    \/ \E w \in Pollers : start_acquire(w)
    \/ \E w \in Pollers : start_for(w)
    \/ \E w \in Pollers : start_if(w)
    \/ \E u \in Units : run_job_return(u)
    \/ \E u \in Units : run_job_raise(u)
    \/ \E u \in Units : execute_clear_running(u)
    \/ \E u \in Units : execute_parse(u)
    \/ \E u \in Units : execute_reschedule(u)
    \/ \E u \in Units : execute_save(u)
    \/ \E u \in Units : execute_notify_raise(u)
    \/ \E u \in Units : execute_save_raise(u)
    \/ tick

Spec == Init /\ [][Next]_vars

\* The start/stop life cycle, with start() called more than once.
NextRestart ==
    \/ \E rule \in RestartRuleInputs : add_job(rule)
    \/ engine_start(MaxRestarts)
    \/ engine_stop
    \/ engine_stop_return
    \/ \E w \in Pollers : start_while(w)
    \/ \E w \in Pollers : start_acquire(w)
    \/ \E w \in Pollers : start_for(w)
    \/ \E w \in Pollers : start_if(w)
    \/ \E u \in Units : run_job_return(u)
    \/ \E u \in Units : run_job_raise(u)
    \/ \E u \in Units : execute_clear_running(u)
    \/ \E u \in Units : execute_parse(u)
    \/ \E u \in Units : execute_reschedule(u)
    \/ \E u \in Units : execute_save(u)
    \/ \E u \in Units : execute_notify_raise(u)
    \/ \E u \in Units : execute_save_raise(u)
    \/ tick

SpecRestart == Init /\ [][NextRestart]_vars

\* ------------------------------------------- next_run_time, called alone
InitCalc ==
    /\ jobs = load_jobs
    /\ store = << >>
    /\ runner_running = TRUE
    /\ lock = 0
    /\ thread = 0
    /\ pollers = [w \in Pollers |-> NoPoller]
    /\ units = [u \in Units |-> NoUnit]
    /\ n_units = 0
    /\ clock = 0
    /\ caller_pc = "ready"
    /\ stop_returned = FALSE
    /\ add_result = "none"
    /\ calc_rule \in CalcRules
    /\ calc_t \in CalcTimes
    /\ calc_out = Raise("unset")

\* One call next_run_time(calc_rule, calc_t).
calc_call ==
    /\ calc_out.err = "unset"
    /\ calc_out' = next_run_time(calc_rule, calc_t)
    /\ UNCHANGED <<sched_vars, calc_rule, calc_t>>

\* The result becomes the next call's last_run, as in execute_and_reschedule.
calc_feed ==
    /\ calc_out.err = "none"
    /\ calc_out.val \in CalcTimes
    /\ calc_t' = calc_out.val
    /\ calc_out' = Raise("unset")
    /\ UNCHANGED <<sched_vars, calc_rule>>

NextCalc == calc_call \/ calc_feed

SpecCalc == InitCalc /\ [][NextCalc]_vars

\* ==================================================================== claims

\* C8: for every timestamp t, next_run_time returns exactly t + 1 day for a
\* daily rule, t + 7 days for a weekly rule, t + 1 hour for an hourly rule and
\* t + seconds for an interval rule, a value strictly greater than t (for
\* seconds > 0), and the call changes neither the rule nor any job.
C8_FixedOffset ==
    [][(calc_out.err = "unset" /\ calc_out'.err # "unset") =>
        /\ calc_rule' = calc_rule /\ calc_t' = calc_t /\ jobs' = jobs /\ store' = store
        /\ calc_rule.frequency = "daily" => calc_out' = Ok(calc_t + 24 * 60 * 60)
        /\ calc_rule.frequency = "weekly" => calc_out' = Ok(calc_t + 7 * 24 * 60 * 60)
        /\ calc_rule.frequency = "hourly" => calc_out' = Ok(calc_t + 60 * 60)
        /\ (calc_rule.frequency = "interval" /\ calc_rule.seconds.form = "int") =>
                calc_out' = Ok(calc_t + calc_rule.seconds.at)
        /\ (\/ calc_rule.frequency \in {"daily", "weekly", "hourly"}
            \/ /\ calc_rule.frequency = "interval"
               /\ calc_rule.seconds.form = "int"
               /\ calc_rule.seconds.at > 0) =>
                (calc_out'.err = "none" /\ calc_out'.val > calc_t)
      ]_vars

C8_Witness ==
    /\ calc_rule.frequency = "weekly"
    /\ calc_t > 0
    /\ calc_out = Ok(calc_t + 604800)

\* C9: for a once rule configured with the time T, next_run_time returns T
\* for every last_run: the result does not depend on last_run.
C9_OnceReturnsConfiguredTime ==
    (calc_out.err # "unset" /\ calc_rule.frequency = "once" /\ calc_rule.time.form = "iso")
        => calc_out = Ok(calc_rule.time.at)

C9_Witness ==
    /\ calc_rule.frequency = "once"
    /\ calc_rule.time.form = "iso"
    /\ calc_t > calc_rule.time.at
    /\ calc_out = Ok(calc_rule.time.at)

\* ---------------------------------------------------- claims on the runner
\* The unit started by this step, 0 when the step starts none.
Dispatched(j) == n_units' = n_units + 1 /\ units'[n_units'].job = j

\* The unit u ends with this step.
Terminates(u) == units[u].pc \in InFlightPcs /\ units'[u].pc \in {"done", "raised"}

\* A scan of poller w ends with this step.
ScanEnds(w) == pollers[w].pc = "for" /\ pollers'[w].pc = "while"

\* The rules of section 3 whose next_run advances by a fixed offset.
FixedOffset(rule) ==
    IF rule.frequency = "daily" THEN 24 * 60 * 60
    ELSE IF rule.frequency = "weekly" THEN 7 * 24 * 60 * 60
    ELSE IF rule.frequency = "hourly" THEN 60 * 60
    ELSE IF rule.frequency = "interval" /\ rule.seconds.form = "int" THEN rule.seconds.at
    ELSE 0

\* A rule with a configuration error (section 7): an unknown tag, a
\* time-of-day rule without a time, an interval that is not positive.
ConfigError(rule) ==
    \/ rule.frequency \notin TimeFrequencies \cup {"interval"}
    \/ rule.frequency \in TimeFrequencies /\ rule.time.form \notin {"iso", "hhmm"}
    \/ rule.frequency = "interval" /\ ~(rule.seconds.form = "int" /\ rule.seconds.at > 0)

\* C1: each job has at most one execution unit in flight: a job is never
\* dispatched again while an earlier unit for it has not finished its steps.
C1_AtMostOneUnitInFlight ==
    \A j \in DOMAIN jobs : Cardinality(InFlight(j)) <= 1

\* C2: on every exit path of an execution unit, the path where run_job
\* raises included, the job ends with running == false and with next_run
\* advanced per its rule.
C2_RunningResetOnEveryExit ==
    [][\A u \in Units : Terminates(u) =>
        LET j == units[u].job
            expected == next_run_time(jobs[j].rule, units[u].dispatch_next_run)
        IN /\ ~jobs'[j].running
           /\ expected.err = "none" => jobs'[j].next_run = isoformat(expected.val)
      ]_vars

\* C3: once a call of stop() has returned, no scan dispatches a new
\* execution unit any more.
C3_NoDispatchAfterStopReturned ==
    [][stop_returned => n_units' = n_units]_vars

\* C4: every dispatch is for a job that has running == false and
\* next_run <= now at the moment of the check: a running job and a job whose
\* next_run lies in the future are never dispatched.
C4_OnlyDueJobsDispatched ==
    [][\A j \in DOMAIN jobs : Dispatched(j) =>
        (~jobs[j].running /\ parse_time(jobs[j].next_run).val <= clock)
      ]_vars

\* C5: while the runner is running, every job that has next_run <= now and
\* running == false when a scan starts is dispatched by that very scan.
C5_DueJobsDispatchedByTheScan ==
    [][\A w \in Pollers : (ScanEnds(w) /\ runner_running) =>
        pollers[w].due \subseteq pollers[w].dispatched
      ]_vars

\* C6: for a daily, weekly, hourly or interval job, a completed execution
\* leaves next_run equal to the next_run the job had when it was dispatched
\* plus the rule's fixed offset, hence strictly greater than before.
C6_NextRunAdvancesFromDispatchValue ==
    [][\A u \in Units : (units[u].pc = "save" /\ units'[u].pc = "done") =>
        LET j == units[u].job IN
        (FixedOffset(jobs[j].rule) > 0) =>
            /\ parse_time(jobs'[j].next_run).val
                   = units[u].dispatch_next_run + FixedOffset(jobs[j].rule)
            /\ parse_time(jobs'[j].next_run).val > units[u].dispatch_next_run
      ]_vars

\* C7: a job whose rule carries a configuration error is never scheduled: it
\* is neither appended to the job set, nor persisted, nor dispatched.
C7_ConfigErrorNeverScheduled ==
    /\ \A i \in DOMAIN jobs : ~ConfigError(jobs[i].rule)
    /\ \A i \in DOMAIN store : ~ConfigError(store[i].rule)
    /\ \A u \in Units : units[u].pc # "unborn" => ~ConfigError(jobs[units[u].job].rule)

\* C10: when two distinct jobs are both due at the start of a scan, that one
\* scan dispatches both of them.
C10_BothDueJobsDispatchedInOneScan ==
    [][\A w \in Pollers : ScanEnds(w) =>
        \A i, j \in pollers[w].due :
            i # j => (i \in pollers[w].dispatched /\ j \in pollers[w].dispatched)
      ]_vars

\* C11: a failure of the notification sink does not change the outcome of
\* the execution unit: the job still ends with running == false, next_run
\* advanced, and the job set persisted through the store.
C11_NotificationFailureIsHarmless ==
    [][\A u \in Units : (Terminates(u) /\ units'[u].exc = "notify_job_completed") =>
        /\ ~jobs'[units[u].job].running
        /\ store' = save_jobs(jobs')
      ]_vars

C13_InFlightUnitsCompleteAfterStop ==
    [][\A u \in Units : (stop_returned /\ Terminates(u)) =>
        /\ units'[u].pc = "done"
        /\ ~jobs'[units[u].job].running
        /\ store' = save_jobs(jobs')
      ]_vars

\* The first next_run section 4.2 asks of add_job.
ExpectedFirstRun(rule, t) ==
    IF rule.frequency = "interval" THEN Iso(t)
    ELSE IF rule.time.form = "iso" THEN rule.time
    ELSE IF rule.time.form = "hhmm" THEN Iso((t - (t % (24 * 60 * 60))) + rule.time.at * 60)
    ELSE Iso(t - (t % (24 * 60 * 60)))

\* C14: after add_job returns, the job set is the previous set with exactly
\* one new job appended, the new job has running == false and its first
\* next_run is now for an interval rule and the parsed time of the rule
\* otherwise (a past time is kept), and the whole set was handed to save.
C14_AddJobAppendsAndSaves ==
    [][Len(jobs') # Len(jobs) =>
        /\ Len(jobs') = Len(jobs) + 1
        /\ \A i \in DOMAIN jobs : jobs'[i] = jobs[i]
        /\ ~jobs'[Len(jobs')].running
        /\ jobs'[Len(jobs')].next_run = ExpectedFirstRun(jobs'[Len(jobs')].rule, clock)
        /\ store' = jobs'
        /\ add_result' = "ok"
      ]_vars

\* Two jobs with the same rule, the second added at a later time, both saved;
\* the first still has its first next_run, now in the past.
C14_Witness ==
    /\ Len(jobs) = 2
    /\ jobs[1].rule = jobs[2].rule
    /\ jobs[1].rule.frequency = "once"
    /\ jobs[1].next_run.at < clock
    /\ store = jobs
    /\ add_result = "ok"
    /\ n_units = 0

\* C15: inside an execution unit next_run is rewritten before running is
\* cleared: while a unit has not rewritten next_run, its job has running ==
\* true.
C15_NextRunRewrittenBeforeRunningCleared ==
    \A u \in Units :
        units[u].pc \in {"run_job", "clear", "parse", "reschedule"} =>
            jobs[units[u].job].running

\* C16: a once job whose configured time has passed is never retired: when
\* no execution unit of it is in flight, its next_run still equals the
\* configured time and running == false, so the job is due again for the
\* following scan of the running runner.
C16_OnceJobStaysDue ==
    \A j \in DOMAIN jobs :
        (/\ runner_running
         /\ jobs[j].rule.frequency = "once"
         /\ jobs[j].rule.time.form = "iso"
         /\ jobs[j].rule.time.at <= clock
         /\ InFlight(j) = {}) =>
            /\ jobs[j].next_run = isoformat(jobs[j].rule.time.at)
            /\ IsDue(jobs[j], clock)

\* C17: for every once rule add_job accepted, the recurrence computation of
\* the execution unit succeeds and yields the first next_run again, so the
\* unit goes on to notify-complete and persist.
C17_OnceRuleRecomputes ==
    [][\A u \in Units :
        (/\ units[u].pc = "reschedule"
         /\ units'[u].pc # "reschedule"
         /\ jobs[units[u].job].rule.frequency = "once") =>
            /\ units'[u].pc = "save"
            /\ parse_time(jobs'[units[u].job].next_run).val = units[u].dispatch_next_run
      ]_vars

\* C18: the running flag does not survive persistence: the job set a newly
\* constructed engine loads from what save wrote holds no job with
\* running == true.
C18_RunningNotPersisted ==
    \A i \in DOMAIN load_saved(store) : ~load_saved(store)[i].running

\* C19: once stop() has ended the poll loop and returned, a following
\* start() brings the runner back to the Running state.
C19_RestartAfterStopRuns ==
    [][(/\ stop_returned
        /\ thread >= 1
        /\ pollers[thread].pc = "done"
        /\ thread' = thread + 1) => runner_running'
      ]_vars

\* C20: for any sequence of start() and stop() calls at most one poll-loop
\* worker is alive, and it is the one the engine tracks in self.thread.
C20_AtMostOnePollLoop ==
    \A w \in Pollers : pollers[w].pc \notin {"unborn", "done"} => w = thread

====
